---------------------------- MODULE Spec2Model ----------------------------
(***************************************************************************)
(* Position ledger and valuation engine of my-giro-tracker                 *)
(* (src/src/utils/portfolioCalculations.ts, the definitions of lines       *)
(* 233-918, which are the ones in force in that file).                     *)
(*                                                                         *)
(* Every walk of the engine builds allEvents, sorts it by date and folds   *)
(* over it.  The model is the fold: one Process step per element of the    *)
(* sorted allEvents.  The next element is any event the sort can put       *)
(* there: its date is not before the date of the previous element, and     *)
(* among equal dates transactions precede deposits, which precede price    *)
(* updates and dividends (the order in which the walks push them, kept by  *)
(* the stable sort).  All walks of the engine run over the same inputs,    *)
(* each seeing the kinds of event it collects.                             *)
(*                                                                         *)
(* Spec is that fold over any sorted allEvents; SpecClocks is the same     *)
(* with the clocks of two invocations left open; SpecChart ends in the     *)
(* rendering of PortfolioChart; SpecCall is one call on given input        *)
(* arrays, the normalizer step by step (pushes, sort) and then the loop;   *)
(* SpecImport is the CSV import of the page (handleFileSelect of           *)
(* src/src/pages/Index.tsx), one step per await, with two invocations      *)
(* interleaving.                                                           *)
(*                                                                         *)
(* Numbers are JavaScript doubles in the code.  The model computes with    *)
(* exact rationals <<numerator, denominator>>, so rounding is out of its   *)
(* scope; 0/0 is NaN <<0, 0>> and x/0 is Infinity <<1, 0>> or -Infinity    *)
(* <<-1, 0>>.                                                              *)
(***************************************************************************)
EXTENDS Integers, Sequences, FiniteSets, TLC

(***************************************************************************)
(* Bounds of the model.                                                    *)
(***************************************************************************)
MaxEvents == 3          \* length of the sorted allEvents
MaxClockEvents == 2     \* the same, where the clocks of the invocations vary
MaxChartEvents == 2     \* the same, where the chart is rendered
MaxTransactions == 2    \* length of the transactions array of a call
MaxActivities == 1      \* length of the accountActivities array of a call
MaxPriceHistory == 1    \* length of the priceHistory array of a call
MaxImports == 3         \* invocations of handleFileSelect
MaxFileRows == 2        \* transactions of a CSV file

(***************************************************************************)
(* Exact rational arithmetic standing for the doubles of the code.         *)
(***************************************************************************)
Abs(n) == IF n < 0 THEN -n ELSE n

RECURSIVE GCD(_, _)
GCD(a, b) == IF b = 0 THEN a ELSE GCD(b, a % b)

\* Math.sign on a quantity
Sign(n) == IF n > 0 THEN 1 ELSE IF n < 0 THEN -1 ELSE 0

NaN == <<0, 0>>

IsNaN(x) == x = NaN

\* Number.isFinite
IsFinite(x) == x[2] # 0

Norm(n, d) ==
    LET g == GCD(Abs(n), Abs(d))
        s == IF d < 0 THEN -1 ELSE 1
    IN <<(s * n) \div g, (s * d) \div g>>

Frac(n, d) == IF d = 0 THEN NaN ELSE Norm(n, d)

Num(n) == <<n, 1>>

Zero == Num(0)

RAdd(x, y) ==
    IF IsNaN(x) \/ IsNaN(y) THEN NaN
    ELSE IF IsFinite(x) /\ IsFinite(y) THEN Norm(x[1] * y[2] + y[1] * x[2], x[2] * y[2])
    ELSE IF ~IsFinite(x) /\ ~IsFinite(y) THEN (IF x = y THEN x ELSE NaN)
    ELSE IF IsFinite(x) THEN y ELSE x

RNeg(x) == <<-x[1], x[2]>>

RSub(x, y) == RAdd(x, RNeg(y))

RMul(x, y) ==
    IF IsFinite(x) /\ IsFinite(y) THEN Norm(x[1] * y[1], x[2] * y[2])
    ELSE <<Sign(x[1] * y[1]), 0>>

\* x / y of the code, y finite; the zero divisors of the code are +0
RDiv(x, y) ==
    IF IsNaN(x) \/ IsNaN(y) THEN NaN
    ELSE IF y[1] = 0 THEN <<Sign(x[1]), 0>>
    ELSE IF IsFinite(x) THEN Norm(x[1] * y[2], x[2] * y[1])
    ELSE <<x[1] * Sign(y[1]), 0>>

RAbs(x) == <<Abs(x[1]), x[2]>>

\* x > y on doubles (false when either is NaN)
RGt(x, y) ==
    /\ ~IsNaN(x)
    /\ ~IsNaN(y)
    /\ IF IsFinite(x) \/ IsFinite(y) THEN x[1] * y[2] > y[1] * x[2] ELSE x[1] > y[1]


(***************************************************************************)
(* Input records.  Dates are the parsed form of the datum/tijd strings.    *)
(***************************************************************************)
Invocations == {1, 2}

\* Date.getTime(): an order-preserving count of minutes
GetTime(date) ==
    (((date.yyyy * 12 + (date.MM - 1)) * 31 + (date.dd - 1)) * 24 + date.HH) * 60
        + date.mm

\* Invalid Date, the Date whose getTime() is NaN
InvalidDate == [yyyy |-> 0, MM |-> 0, dd |-> 0, HH |-> 0, mm |-> 0]

\* isNaN(date.getTime())
IsInvalidDate(date) == date = InvalidDate

DaysInMonth(MM, yyyy) ==
    IF MM \in {4, 6, 9, 11} THEN 30
    ELSE IF MM # 2 THEN 31
    ELSE IF yyyy % 4 = 0 /\ (yyyy % 100 # 0 \/ yyyy % 400 = 0) THEN 29 ELSE 28

\* the day exists in the calendar
ValidDatum(datum) ==
    /\ datum.MM \in 1..12
    /\ datum.dd \in 1..DaysInMonth(datum.MM, datum.yyyy)

\* parse(`${datum} ${tijd}`, 'dd-MM-yyyy HH:mm', new Date())
ParseDatumTijd(datum, tijd) ==
    IF ValidDatum(datum) /\ tijd.HH \in 0..23 /\ tijd.mm \in 0..59
    THEN [yyyy |-> datum.yyyy, MM |-> datum.MM, dd |-> datum.dd,
          HH |-> tijd.HH, mm |-> tijd.mm]
    ELSE InvalidDate

\* parse(dividend.date, 'dd-MM-yyyy', new Date()): midnight of that day
ParseDate(datum) ==
    [yyyy |-> datum.yyyy, MM |-> datum.MM, dd |-> datum.dd, HH |-> 0, mm |-> 0]

\* the days of the transactions, cash activities and price observations
Datums ==
    { [dd |-> 15, MM |-> 12, yyyy |-> 2024],
      [dd |-> 15, MM |-> 1, yyyy |-> 2025] }

\* the days of the dividends
DividendDatums == { [dd |-> 15, MM |-> 11, yyyy |-> 2024] }

Tijden == { [HH |-> 9, mm |-> 0] }

\* the clock readings new Date() of the invocations
Clocks ==
    { [yyyy |-> 2024, MM |-> 12, dd |-> 31, HH |-> 12, mm |-> 0],
      [yyyy |-> 2025, MM |-> 1, dd |-> 20, HH |-> 12, mm |-> 0],
      [yyyy |-> 2025, MM |-> 3, dd |-> 1, HH |-> 12, mm |-> 0] }

LatestClock == [yyyy |-> 2025, MM |-> 3, dd |-> 1, HH |-> 12, mm |-> 0]

Digits == {"0", "1", "2", "3", "4", "5", "6", "7", "8", "9"}

\* /[CP]\d{2,}/.test(product), product a sequence of characters
OptionPattern(product) ==
    \E i \in 1..(Len(product) - 2) :
        /\ product[i] \in {"C", "P"}
        /\ product[i + 1] \in Digits
        /\ product[i + 2] \in Digits

Instruments ==
    { [isin |-> "NL0010273215", product |-> <<"A", "S", "M", "L">>],
      [isin |-> "NL0000000107", product |-> <<"A", "E", "X", " ", "C", "9", "0", "0">>] }

Isins == { i.isin : i \in Instruments }

Koersen == { Frac(1, 2), Frac(3, 2) }

\* the quantities traded: shares of the stock, contracts of the option
Aantallen(product) == IF OptionPattern(product) THEN {-2, 2} ELSE {-2, -1, 1, 2}

\* contract size of the instrument a trade is in
ContractSize(product) == IF OptionPattern(product) THEN 100 ELSE 1

\* The Waarde column of the export: the signed cash flow of the trade in the
\* reporting currency, -aantal x koers x contract size (fees are a separate column).
ExportWaarde(product, aantal, koers) ==
    RMul(Num(-aantal * ContractSize(product)), koers)

TransactionRowsFor(instrument) ==
    { [datum |-> d, tijd |-> t, product |-> instrument.product, isin |-> instrument.isin,
       aantal |-> q, koers |-> k,
       waarde |-> ExportWaarde(instrument.product, q, k)] :
        d \in Datums, t \in Tijden, k \in Koersen, q \in Aantallen(instrument.product) }

TransactionRows == UNION { TransactionRowsFor(i) : i \in Instruments }

\* activity.omschrijving.toLowerCase().includes('ideal')
ToLowerCase(c) ==
    CASE c = "D" -> "d" [] c = "E" -> "e" [] c = "A" -> "a" [] c = "L" -> "l"
      [] c = "I" -> "i" [] OTHER -> c

Includes(s, sub) ==
    \E i \in 0..(Len(s) - Len(sub)) :
        \A j \in 1..Len(sub) : ToLowerCase(s[i + j]) = sub[j]

IsDepositDescription(omschrijving) ==
    Includes(omschrijving, <<"i", "d", "e", "a", "l">>)

Omschrijvingen ==
    { <<"i", "D", "E", "A", "L", " ", "D", "e", "p", "o", "s", "i", "t">>,
      <<"D", "i", "v", "i", "d", "e", "n", "d">> }

AccountActivityRows ==
    { [datum |-> d, tijd |-> t, omschrijving |-> o, mutatie |-> Num(1000)] :
        d \in Datums, t \in Tijden, o \in Omschrijvingen }

PriceHistoryRows ==
    { [isin |-> i, price |-> k, timestamp |-> ParseDatumTijd(d, t)] :
        i \in Isins, k \in Koersen, d \in Datums, t \in Tijden }

DividendRows == { [date |-> d, amount |-> Num(7)] : d \in DividendDatums }

\* new Map<string, number>() values handed in as currentPrices
CurrentPriceMaps ==
    { [i \in {} |-> Zero],
      [i \in Isins |-> Frac(1, 2)],
      [i \in Isins |-> Frac(65, 128)] }

(***************************************************************************)
(* Map operations                                                          *)
(***************************************************************************)
EmptyMap == [k \in {} |-> Zero]

MapSetAlone(map, key, value) == [k \in {key} |-> value]

MapSet(m, k, v) == [x \in (DOMAIN m) \cup {k} |-> IF x = k THEN v ELSE m[x]]

MapDelete(m, k) == [x \in (DOMAIN m) \ {k} |-> m[x]]

\* an optional local: <<>> is undefined, <<v>> is v
Undefined == << >>

Some(v) == <<v>>

\* `${transaction.isin}-${transaction.product}`
Key(r) == <<r.isin, r.product>>

RECURSIVE RSum(_, _)
\* sum of f[x] over the finite set S
RSum(f, S) ==
    IF S = {} THEN Zero
    ELSE LET x == CHOOSE y \in S : TRUE IN RAdd(f[x], RSum(f, S \ {x}))

(***************************************************************************)
(* calculatePortfolioOverTime (lines 364-508)                              *)
(***************************************************************************)
\* what one holding adds to unrealized in calculateUnrealizedValue (lines 379-386)
HoldingUnrealized(holding, prices) ==
    IF holding.quantity # 0 /\ holding.isin \in DOMAIN prices
    THEN LET currentPrice == prices[holding.isin]
             avgPrice == RAbs(RDiv(holding.totalCost, Num(holding.quantity)))
             multiplier == IF holding.isOption THEN 100 ELSE 1
         IN RMul(RSub(currentPrice, avgPrice), Num(holding.quantity * multiplier))
    ELSE Zero

\* calculateUnrealizedValue(prices) over holdingsMap (lines 376-389)
CalculateUnrealizedValue(holdingsMap, prices) ==
    RSum([key \in DOMAIN holdingsMap |-> HoldingUnrealized(holdingsMap[key], prices)],
         DOMAIN holdingsMap)

FullCloseProceedsOnly(existing, transaction) == transaction.waarde

\* realizedPL of a transaction that brings the quantity to 0 (lines 442, 317, 755, 848)
FullCloseRealizedPL(existing, transaction) ==
    RAdd(existing.totalCost, transaction.waarde)

\* closedQuantity (lines 447-449, 322-324)
ClosedQuantityTransacted(existing, transaction) == Abs(transaction.aantal)

ClosedQuantity(existing, transaction) ==
    IF Abs(existing.quantity) > Abs(transaction.aantal)
    THEN Abs(transaction.aantal)
    ELSE Abs(existing.quantity)

\* totalCost of a position a transaction is added to (lines 468, 341, 764, 857)
AddedCost(existing, transaction) == RAdd(existing.totalCost, transaction.waarde)

SnapshotValueRealizedOnly(realizedValue, unrealizedValue) == realizedValue

\* the value of the snapshot of an event (line 488)
SnapshotValue(realizedValue, unrealizedValue) == RAdd(realizedValue, unrealizedValue)

\* The transaction branch of the loop body (lines 429-481).  walk holds
\* holdingsMap and realizedValue; the result adds the locals of the iteration.
PortfolioTransaction(walk, transaction) ==
    LET key == Key(transaction)
        isOption == OptionPattern(transaction.product)
        holdingsMap == walk.holdingsMap
    IN
    IF key \in DOMAIN holdingsMap
    THEN LET existing == holdingsMap[key]
             newQuantity == existing.quantity + transaction.aantal
         IN
         IF newQuantity = 0
         THEN \* Position fully closed - realize P/L
              LET realizedPL == FullCloseRealizedPL(existing, transaction) IN
              [walk EXCEPT !.holdingsMap = MapDelete(holdingsMap, key),
                           !.realizedValue = RAdd(walk.realizedValue, realizedPL),
                           !.existing = Some(existing),
                           !.closedQuantity = Undefined,
                           !.realizedPL = Some(realizedPL)]
         ELSE IF Sign(existing.quantity) # Sign(newQuantity) /\ newQuantity # 0
         THEN \* "Partial close - realize P/L on closed portion"
              LET closedQuantity == ClosedQuantity(existing, transaction)
                  avgCost == RDiv(existing.totalCost, Num(Abs(existing.quantity)))
                  closedCost == RMul(RNeg(avgCost), Num(closedQuantity))
                  closedSale == RMul(RDiv(transaction.waarde, Num(Abs(transaction.aantal))),
                                     Num(closedQuantity))
                  realizedPL == RAdd(closedCost, closedSale)
                  remainingQuantity == existing.quantity + transaction.aantal
                  remainingCost == RSub(existing.totalCost, closedCost)
              IN
              [walk EXCEPT !.holdingsMap =
                               MapSet(holdingsMap, key,
                                      [existing EXCEPT !.totalCost = remainingCost,
                                                       !.quantity = remainingQuantity]),
                           !.realizedValue = RAdd(walk.realizedValue, realizedPL),
                           !.existing = Some(existing),
                           !.closedQuantity = Some(closedQuantity),
                           !.realizedPL = Some(realizedPL)]
         ELSE \* "Adding to position - no realized P/L"
              [walk EXCEPT !.holdingsMap =
                               MapSet(holdingsMap, key,
                                      [existing EXCEPT
                                          !.totalCost = AddedCost(existing, transaction),
                                          !.quantity = newQuantity]),
                           !.existing = Some(existing),
                           !.closedQuantity = Undefined,
                           !.realizedPL = Undefined]
    ELSE \* New position - no realized P/L
         [walk EXCEPT !.holdingsMap =
                          MapSet(holdingsMap, key,
                                 [totalCost |-> transaction.waarde,
                                  quantity |-> transaction.aantal,
                                  isin |-> transaction.isin,
                                  product |-> transaction.product,
                                  isOption |-> isOption]),
                      !.existing = Undefined,
                      !.closedQuantity = Undefined,
                      !.realizedPL = Undefined]

\* One iteration of allEvents.forEach (lines 420-490)
PortfolioEvent(walk, event) ==
    LET after ==
            IF event.type = "deposit"
            THEN [walk EXCEPT !.realizedValue = RAdd(walk.realizedValue, event.data.mutatie),
                              !.existing = Undefined,
                              !.closedQuantity = Undefined,
                              !.realizedPL = Undefined]
            ELSE IF event.type = "price_update"
            THEN [walk EXCEPT !.historicalPrices =
                                  MapSet(walk.historicalPrices, event.data.isin,
                                         event.data.price),
                              !.existing = Undefined,
                              !.closedQuantity = Undefined,
                              !.realizedPL = Undefined]
            ELSE PortfolioTransaction(walk, event.data)
        unrealizedValue == CalculateUnrealizedValue(after.holdingsMap, after.historicalPrices)
    IN [after EXCEPT !.snapshots =
                         Append(walk.snapshots,
                                [date |-> event.date,
                                 value |-> SnapshotValue(after.realizedValue,
                                                         unrealizedValue)])]

\* the locals of calculatePortfolioOverTime before the loop (lines 371-373, 418)
PortfolioStart ==
    [holdingsMap |-> EmptyMap, realizedValue |-> Zero, historicalPrices |-> EmptyMap,
     snapshots |-> << >>, existing |-> Undefined, closedQuantity |-> Undefined,
     realizedPL |-> Undefined]

FinalSnapshotAnyDifference(walk, currentPrices, clock) ==
    IF DOMAIN currentPrices # {} /\ Len(walk.snapshots) > 0
    THEN LET lastSnapshot == walk.snapshots[Len(walk.snapshots)]
             currentValue ==
                 RAdd(walk.realizedValue,
                      CalculateUnrealizedValue(walk.holdingsMap, currentPrices))
         IN IF currentValue # lastSnapshot.value
            THEN << [date |-> clock, value |-> currentValue] >>
            ELSE << >>
    ELSE << >>

\* The final snapshot (lines 492-505): the snapshots appended after the loop,
\* by an invocation whose clock reads clock.
FinalSnapshot(walk, currentPrices, clock) ==
    IF DOMAIN currentPrices # {} /\ Len(walk.snapshots) > 0
    THEN LET lastSnapshot == walk.snapshots[Len(walk.snapshots)]
             unrealizedValue == CalculateUnrealizedValue(walk.holdingsMap, currentPrices)
             currentValue == RAdd(walk.realizedValue, unrealizedValue)
         IN IF RGt(RAbs(RSub(currentValue, lastSnapshot.value)), Frac(1, 100))
            THEN << [date |-> clock, value |-> currentValue] >>
            ELSE << >>
    ELSE << >>

(***************************************************************************)
(* calculateRealizedPLOverTime (lines 274-362)                             *)
(***************************************************************************)
\* The transaction branch of the loop body (lines 306-351)
RealizedTransaction(walk, transaction) ==
    LET key == Key(transaction)
        holdingsMap == walk.holdingsMap
    IN
    IF key \in DOMAIN holdingsMap
    THEN LET existing == holdingsMap[key]
             newQuantity == existing.quantity + transaction.aantal
         IN
         IF newQuantity = 0
         THEN LET realizedPL == FullCloseRealizedPL(existing, transaction) IN
              [walk EXCEPT !.holdingsMap = MapDelete(holdingsMap, key),
                           !.realizedValue = RAdd(walk.realizedValue, realizedPL),
                           !.existing = Some(existing),
                           !.closedQuantity = Undefined,
                           !.realizedPL = Some(realizedPL)]
         ELSE IF Sign(existing.quantity) # Sign(newQuantity) /\ newQuantity # 0
         THEN LET closedQuantity == ClosedQuantity(existing, transaction)
                  avgCost == RDiv(existing.totalCost, Num(Abs(existing.quantity)))
                  closedCost == RMul(RNeg(avgCost), Num(closedQuantity))
                  closedSale == RMul(RDiv(transaction.waarde, Num(Abs(transaction.aantal))),
                                     Num(closedQuantity))
                  realizedPL == RAdd(closedCost, closedSale)
                  remainingQuantity == existing.quantity + transaction.aantal
                  remainingCost == RSub(existing.totalCost, closedCost)
              IN
              [walk EXCEPT !.holdingsMap =
                               MapSet(holdingsMap, key,
                                      [totalCost |-> remainingCost,
                                       quantity |-> remainingQuantity]),
                           !.realizedValue = RAdd(walk.realizedValue, realizedPL),
                           !.existing = Some(existing),
                           !.closedQuantity = Some(closedQuantity),
                           !.realizedPL = Some(realizedPL)]
         ELSE [walk EXCEPT !.holdingsMap =
                               MapSet(holdingsMap, key,
                                      [totalCost |-> AddedCost(existing, transaction),
                                       quantity |-> newQuantity]),
                           !.existing = Some(existing),
                           !.closedQuantity = Undefined,
                           !.realizedPL = Undefined]
    ELSE [walk EXCEPT !.holdingsMap =
                          MapSet(holdingsMap, key,
                                 [totalCost |-> transaction.waarde,
                                  quantity |-> transaction.aantal]),
                      !.existing = Undefined,
                      !.closedQuantity = Undefined,
                      !.realizedPL = Undefined]

\* One iteration of allEvents.forEach (lines 302-359)
RealizedEvent(walk, event) ==
    LET after ==
            IF event.type = "deposit"
            THEN [walk EXCEPT !.realizedValue = RAdd(walk.realizedValue, event.data.mutatie),
                              !.existing = Undefined,
                              !.closedQuantity = Undefined,
                              !.realizedPL = Undefined]
            ELSE RealizedTransaction(walk, event.data)
    IN [after EXCEPT !.snapshots =
                         Append(walk.snapshots,
                                [date |-> event.date, value |-> after.realizedValue])]

\* the locals of calculateRealizedPLOverTime before the loop (lines 279-281)
RealizedStart ==
    [holdingsMap |-> EmptyMap, realizedValue |-> Zero, snapshots |-> << >>,
     existing |-> Undefined, closedQuantity |-> Undefined, realizedPL |-> Undefined]

(***************************************************************************)
(* calculateYearlyReturns (lines 696-787) and calculateMonthlyReturns      *)
(* (lines 789-882)                                                         *)
(***************************************************************************)
\* format(event.date, 'yyyy')
YearKey(date) == date.yyyy

MonthKeyWithoutYear(date) == <<date.MM, 0>>

\* format(event.date, 'MMM yyyy'): the month name stands as its number
MonthKey(date) == <<date.MM, date.yyyy>>

\* map.get(key) || { realized: 0, deposits: 0, dividends: 0 }
BucketOrZero(map, k) ==
    IF k \in DOMAIN map THEN map[k]
    ELSE [realized |-> Zero, deposits |-> Zero, dividends |-> Zero]

\* The loop body of calculateYearlyReturns (lines 730-775)
YearlyEvent(walk, event) ==
    LET yearKey == YearKey(event.date)
        yearlyMap == walk.yearlyMap
        holdingsMap == walk.holdingsMap
    IN
    IF event.type = "deposit"
    THEN LET existing == BucketOrZero(yearlyMap, yearKey) IN
         [walk EXCEPT !.yearlyMap =
             MapSet(yearlyMap, yearKey,
                    [existing EXCEPT !.deposits = RAdd(existing.deposits, event.data.mutatie)])]
    ELSE IF event.type = "dividend"
    THEN LET existing == BucketOrZero(yearlyMap, yearKey) IN
         [walk EXCEPT !.yearlyMap =
             MapSet(yearlyMap, yearKey,
                    [existing EXCEPT !.dividends = RAdd(existing.dividends, event.data.amount)])]
    ELSE LET transaction == event.data
             key == Key(transaction)
         IN
         IF key \in DOMAIN holdingsMap
         THEN LET existing == holdingsMap[key]
                  newQuantity == existing.quantity + transaction.aantal
              IN
              IF newQuantity = 0
              THEN LET realizedPL == FullCloseRealizedPL(existing, transaction)
                       yearData == BucketOrZero(yearlyMap, yearKey)
                   IN [walk EXCEPT !.yearlyMap =
                           MapSet(yearlyMap, yearKey,
                                  [yearData EXCEPT !.realized = RAdd(yearData.realized, realizedPL)]),
                                   !.holdingsMap = MapDelete(holdingsMap, key)]
              ELSE [walk EXCEPT !.holdingsMap =
                        MapSet(holdingsMap, key,
                               [totalCost |-> AddedCost(existing, transaction),
                                quantity |-> newQuantity])]
         ELSE [walk EXCEPT !.holdingsMap =
                   MapSet(holdingsMap, key,
                          [totalCost |-> transaction.waarde,
                           quantity |-> transaction.aantal])]

\* The loop body of calculateMonthlyReturns (lines 823-868)
MonthlyEvent(walk, event) ==
    LET monthKey == MonthKey(event.date)
        monthlyMap == walk.monthlyMap
        holdingsMap == walk.holdingsMap
    IN
    IF event.type = "deposit"
    THEN LET existing == BucketOrZero(monthlyMap, monthKey) IN
         [walk EXCEPT !.monthlyMap =
             MapSet(monthlyMap, monthKey,
                    [existing EXCEPT !.deposits = RAdd(existing.deposits, event.data.mutatie)])]
    ELSE IF event.type = "dividend"
    THEN LET existing == BucketOrZero(monthlyMap, monthKey) IN
         [walk EXCEPT !.monthlyMap =
             MapSet(monthlyMap, monthKey,
                    [existing EXCEPT !.dividends = RAdd(existing.dividends, event.data.amount)])]
    ELSE LET transaction == event.data
             key == Key(transaction)
         IN
         IF key \in DOMAIN holdingsMap
         THEN LET existing == holdingsMap[key]
                  newQuantity == existing.quantity + transaction.aantal
              IN
              IF newQuantity = 0
              THEN LET realizedPL == FullCloseRealizedPL(existing, transaction)
                       monthData == BucketOrZero(monthlyMap, monthKey)
                   IN [walk EXCEPT !.monthlyMap =
                           MapSet(monthlyMap, monthKey,
                                  [monthData EXCEPT !.realized = RAdd(monthData.realized, realizedPL)]),
                                   !.holdingsMap = MapDelete(holdingsMap, key)]
              ELSE [walk EXCEPT !.holdingsMap =
                        MapSet(holdingsMap, key,
                               [totalCost |-> AddedCost(existing, transaction),
                                quantity |-> newQuantity])]
         ELSE [walk EXCEPT !.holdingsMap =
                   MapSet(holdingsMap, key,
                          [totalCost |-> transaction.waarde,
                           quantity |-> transaction.aantal])]

\* the value returned for one bucket (lines 778-783, 871-876): realized
Realized(data) == RAdd(data.realized, data.dividends)

(***************************************************************************)
(* calculateYTDPerformance (lines 884-903)                                 *)
(***************************************************************************)
StartOfMonth(clock) ==
    [yyyy |-> clock.yyyy, MM |-> clock.MM, dd |-> 1, HH |-> 0, mm |-> 0]

\* new Date(now.getFullYear(), 0, 1)
StartOfYear(clock) == [yyyy |-> clock.yyyy, MM |-> 1, dd |-> 1, HH |-> 0, mm |-> 0]

\* the filter of lines 892-900: date >= startOfYear
InYTD(date, clock) == GetTime(date) >= GetTime(StartOfYear(clock))

(***************************************************************************)
(* calculateHoldings (lines 236-268)                                       *)
(***************************************************************************)
\* holdingsMap after transactions.forEach (lines 239-265), in array order
HoldingsMapOf(transactions) ==
    LET F[i \in 0..Len(transactions)] ==
            IF i = 0 THEN EmptyMap
            ELSE LET transaction == transactions[i]
                     key == Key(transaction)
                     holdingsMap == F[i - 1]
                 IN IF key \in DOMAIN holdingsMap
                    THEN LET existing == holdingsMap[key]
                             newQuantity == existing.quantity + transaction.aantal
                             newTotalCost == RAdd(existing.totalCost, RAbs(transaction.waarde))
                         IN MapSet(holdingsMap, key,
                                   [existing EXCEPT
                                       !.quantity = newQuantity,
                                       !.totalCost = newTotalCost,
                                       !.averagePrice =
                                           IF newQuantity # 0
                                           THEN RDiv(newTotalCost, Num(Abs(newQuantity)))
                                           ELSE Zero])
                    ELSE MapSet(holdingsMap, key,
                                [product |-> transaction.product,
                                 isin |-> transaction.isin,
                                 quantity |-> transaction.aantal,
                                 averagePrice |-> RAbs(transaction.koers),
                                 totalCost |-> RAbs(transaction.waarde)])
    IN F[Len(transactions)]

\* what calculateHoldings returns (line 267), by key
CalculateHoldings(transactions) ==
    LET holdingsMap == HoldingsMapOf(transactions) IN
    [key \in { k \in DOMAIN holdingsMap : holdingsMap[k].quantity # 0 } |-> holdingsMap[key]]

(***************************************************************************)
(* calculateProfitLossByType (lines 526-639)                               *)
(***************************************************************************)
\* holdingsMap after transactions.forEach (lines 540-560), in array order
ProfitLossHoldings(transactions) ==
    LET F[i \in 0..Len(transactions)] ==
            IF i = 0 THEN EmptyMap
            ELSE LET transaction == transactions[i]
                     key == Key(transaction)
                     holdingsMap == F[i - 1]
                 IN IF key \in DOMAIN holdingsMap
                    THEN LET existing == holdingsMap[key] IN
                         MapSet(holdingsMap, key,
                                [netCashFlow |-> RAdd(existing.netCashFlow, transaction.waarde),
                                 quantity |-> existing.quantity + transaction.aantal,
                                 isOption |-> existing.isOption])
                    ELSE MapSet(holdingsMap, key,
                                [netCashFlow |-> transaction.waarde,
                                 quantity |-> transaction.aantal,
                                 isOption |-> OptionPattern(transaction.product)])
    IN F[Len(transactions)]

\* what an open position adds to optionsUnrealized or stocksUnrealized when
\* holdingData?.currentPrice is undefined (lines 586-588, 594-596)
UnrealizedWithoutPrice(holding) ==
    IF holding.isOption THEN holding.netCashFlow ELSE RNeg(holding.netCashFlow)

\* calculateTotalCosts (lines 510-512)
CalculateTotalCosts(transactions) ==
    RSum([i \in 1..Len(transactions) |-> RAbs(transactions[i].transactiekosten)],
         1..Len(transactions))

\* allHoldings of the page (Index.tsx lines 415-420): the holdings of
\* calculateHoldings, each with currentPrices.get(holding.isin)
AllHoldings(transactions, prices) ==
    LET holdings == CalculateHoldings(transactions) IN
    [key \in DOMAIN holdings |->
        [product |-> holdings[key].product,
         isin |-> holdings[key].isin,
         quantity |-> holdings[key].quantity,
         averagePrice |-> holdings[key].averagePrice,
         totalCost |-> holdings[key].totalCost,
         currentPrice |-> IF holdings[key].isin \in DOMAIN prices
                          THEN Some(prices[holdings[key].isin]) ELSE Undefined]]

\* the figures calculateProfitLossByType returns (lines 562-638)
CalculateProfitLossByType(transactions, holdings) ==
    LET holdingsMap == ProfitLossHoldings(transactions)
        closed(isOption) ==
            { key \in DOMAIN holdingsMap :
                holdingsMap[key].quantity = 0 /\ holdingsMap[key].isOption = isOption }
        open(isOption) ==
            { key \in DOMAIN holdingsMap :
                holdingsMap[key].quantity # 0 /\ holdingsMap[key].isOption = isOption }
        priced(key) ==
            IF key \in DOMAIN holdings THEN holdings[key].currentPrice # Undefined ELSE FALSE
        unrealized(key) ==
            IF priced(key)
            THEN LET holdingData == holdings[key] IN
                 RMul(RSub(holdingData.currentPrice[1], holdingData.averagePrice),
                      Num(holdingsMap[key].quantity
                          * (IF holdingsMap[key].isOption THEN 100 ELSE 1)))
            ELSE UnrealizedWithoutPrice(holdingsMap[key])
        realizedOf(isOption) ==
            RSum([key \in closed(isOption) |-> holdingsMap[key].netCashFlow], closed(isOption))
        unrealizedOf(isOption) ==
            RSum([key \in open(isOption) |-> unrealized(key)], open(isOption))
        valued ==
            { key \in DOMAIN holdings :
                /\ holdings[key].currentPrice # Undefined
                /\ holdings[key].quantity # 0
                /\ key \in DOMAIN holdingsMap
                /\ IF key \in DOMAIN holdingsMap
                   THEN holdingsMap[key].quantity # 0 ELSE FALSE }
        portfolioValue ==
            RSum([key \in valued |->
                     RMul(holdings[key].currentPrice[1],
                          Num(holdings[key].quantity
                              * (IF holdingsMap[key].isOption THEN 100 ELSE 1)))],
                 valued)
        optionsRealized == realizedOf(TRUE)
        optionsUnrealized == unrealizedOf(TRUE)
        stocksRealized == realizedOf(FALSE)
        stocksUnrealized == unrealizedOf(FALSE)
        totalPL == RAdd(RAdd(optionsRealized, optionsUnrealized),
                        RAdd(stocksRealized, stocksUnrealized))
    IN [optionsPL |-> RAdd(optionsRealized, optionsUnrealized),
        stocksPL |-> RAdd(stocksRealized, stocksUnrealized),
        portfolioValue |-> portfolioValue,
        totalPL |-> RSub(totalPL, CalculateTotalCosts(transactions)),
        optionsRealized |-> optionsRealized,
        optionsUnrealized |-> optionsUnrealized,
        stocksRealized |-> stocksRealized,
        stocksUnrealized |-> stocksUnrealized]

(***************************************************************************)
(* The event normalizer of a walk (lines 392-415): the arrays of a call,   *)
(* the events pushed from them and the sort.                               *)
(***************************************************************************)
\* a datum no calendar day answers to: 31-02-2025
InvalidDatum == [dd |-> 31, MM |-> 2, yyyy |-> 2025]

\* sequences over S of length at most n
SeqsUpTo(S, n) == UNION { [1..k -> S] : k \in 0..n }

\* rows of the transactions array: purchases of 2 and sales of 1 share of the
\* stock, and rows of quantity 0, each with a fee of 0.50
InputTransactionRows ==
    { [datum |-> d, tijd |-> t, product |-> <<"A", "S", "M", "L">>,
       isin |-> "NL0010273215", aantal |-> q, koers |-> Frac(1, 2),
       waarde |-> ExportWaarde(<<"A", "S", "M", "L">>, q, Frac(1, 2)),
       transactiekosten |-> Frac(-1, 2)] :
        d \in Datums \cup {InvalidDatum}, t \in Tijden, q \in {-1, 0, 2} }

InputActivityRows ==
    { [datum |-> d, tijd |-> t,
       omschrijving |-> <<"i", "D", "E", "A", "L", " ", "D", "e", "p", "o", "s", "i", "t">>,
       mutatie |-> Num(1000)] :
        d \in {[dd |-> 15, MM |-> 12, yyyy |-> 2024], InvalidDatum}, t \in Tijden }

InputPriceHistoryRows ==
    { [isin |-> "NL0010273215", price |-> Frac(3, 2), timestamp |-> ts] :
        ts \in {[yyyy |-> 2024, MM |-> 12, dd |-> 15, HH |-> 9, mm |-> 0], InvalidDate} }

TransactionEventsUnfiltered(transactions) ==
    [i \in 1..Len(transactions) |->
        [date |-> ParseDatumTijd(transactions[i].datum, transactions[i].tijd),
         type |-> "transaction", data |-> transactions[i]]]

\* transactions.forEach (lines 394-399): the events pushed
TransactionEvents(transactions) ==
    LET pushed(transaction) ==
            LET date == ParseDatumTijd(transaction.datum, transaction.tijd) IN
            IF ~IsInvalidDate(date)
            THEN << [date |-> date, type |-> "transaction", data |-> transaction] >>
            ELSE << >>
        F[i \in 0..Len(transactions)] ==
            IF i = 0 THEN << >> ELSE F[i - 1] \o pushed(transactions[i])
    IN F[Len(transactions)]

\* accountActivities.forEach (lines 401-406)
DepositEvents(accountActivities) ==
    LET pushed(activity) ==
            LET date == ParseDatumTijd(activity.datum, activity.tijd) IN
            IF ~IsInvalidDate(date) /\ IsDepositDescription(activity.omschrijving)
            THEN << [date |-> date, type |-> "deposit", data |-> activity] >>
            ELSE << >>
        F[i \in 0..Len(accountActivities)] ==
            IF i = 0 THEN << >> ELSE F[i - 1] \o pushed(accountActivities[i])
    IN F[Len(accountActivities)]

PriceUpdateEventsDropped(priceHistory) == << >>

\* priceHistory.forEach (lines 408-413)
PriceUpdateEvents(priceHistory) ==
    LET pushed(priceUpdate) ==
            LET date == priceUpdate.timestamp IN
            IF ~IsInvalidDate(date)
            THEN << [date |-> date, type |-> "price_update", data |-> priceUpdate] >>
            ELSE << >>
        F[i \in 0..Len(priceHistory)] ==
            IF i = 0 THEN << >> ELSE F[i - 1] \o pushed(priceHistory[i])
    IN F[Len(priceHistory)]

\* (a, b) => a.date.getTime() - b.date.getTime(); NaN counts as 0 in a sort
Compare(a, b) ==
    IF IsInvalidDate(a.date) \/ IsInvalidDate(b.date) THEN 0
    ELSE GetTime(a.date) - GetTime(b.date)

RECURSIVE InsertBeforeEqual(_, _)
InsertBeforeEqual(sorted, e) ==
    IF sorted = << >> THEN <<e>>
    ELSE IF Compare(Head(sorted), e) >= 0 THEN <<e>> \o sorted
    ELSE <<Head(sorted)>> \o InsertBeforeEqual(Tail(sorted), e)

RECURSIVE InsertSorted(_, _)
\* e put into sorted behind every element that does not compare greater
InsertSorted(sorted, e) ==
    IF sorted = << >> THEN <<e>>
    ELSE IF Compare(Head(sorted), e) > 0 THEN <<e>> \o sorted
    ELSE <<Head(sorted)>> \o InsertSorted(Tail(sorted), e)

RECURSIVE SortEvents(_)
\* allEvents.sort (line 415): Array.prototype.sort is stable
SortEvents(allEvents) ==
    IF allEvents = << >> THEN << >>
    ELSE InsertSorted(SortEvents(SubSeq(allEvents, 1, Len(allEvents) - 1)),
                      allEvents[Len(allEvents)])

(***************************************************************************)
(* PortfolioChart (src/src/components/PortfolioChart.tsx)                  *)
(***************************************************************************)
\* the totalValue and borrowedAmount props (Index.tsx lines 561-562)
TotalValues == { Zero, Num(1000) }

BorrowedAmounts == { Zero, Num(1000) }

\* netPortfolioValue (line 37)
NetPortfolioValue(totalValue, borrowedAmount) == RSub(totalValue, borrowedAmount)

\* percentage of a bucket (lines 127, 133)
Percentage(itemRealized, netPortfolioValue) ==
    RMul(RDiv(itemRealized, netPortfolioValue), Num(100))

\* monthlyData and yearlyData (lines 125-134): per bucket, realized and percentage
ChartData(map, netPortfolioValue) ==
    [k \in DOMAIN map |->
        [realized |-> Realized(map[k]),
         percentage |-> Percentage(Realized(map[k]), netPortfolioValue)]]

\* the snapshots whose date is a date (lines 87, 98, 117)
ValidSnapshots(snapshots) ==
    LET valid(snapshot) == ~IsInvalidDate(snapshot.date) IN SelectSeq(snapshots, valid)

\* realizedChartData (lines 86-93)
RealizedChartData(realizedData, netPortfolioValue) ==
    LET snapshots == ValidSnapshots(realizedData) IN
    [i \in 1..Len(snapshots) |->
        [dateKey |-> GetTime(snapshots[i].date),
         realized |-> snapshots[i].value,
         realizedPercentage |-> Percentage(snapshots[i].value, netPortfolioValue)]]

\* totalValueByDate (lines 96-100): new Map(entries) keeps, for each key, the
\* value of the last entry with that key
TotalValueByDate(data) ==
    LET snapshots == ValidSnapshots(data)
        indexOf(dateKey) == { i \in 1..Len(snapshots) : GetTime(snapshots[i].date) = dateKey }
        last(dateKey) == CHOOSE i \in indexOf(dateKey) : \A j \in indexOf(dateKey) : j <= i
    IN [dateKey \in { GetTime(snapshots[i].date) : i \in 1..Len(snapshots) } |->
           snapshots[last(dateKey)].value]

\* combinedChartData (lines 103-113)
CombinedChartData(data, realizedData, netPortfolioValue) ==
    LET realizedChartData == RealizedChartData(realizedData, netPortfolioValue)
        totalValueByDate == TotalValueByDate(data)
        point(item) ==
            LET found == IF item.dateKey \in DOMAIN totalValueByDate
                         THEN totalValueByDate[item.dateKey] ELSE Zero
                \* totalValueByDate.get(item.dateKey) || 0: NaN is falsy
                totalValue == IF IsNaN(found) THEN Zero ELSE found
                unrealizedValue == RSub(totalValue, item.realized)
            IN [dateKey |-> item.dateKey,
                realized |-> item.realized,
                realizedPercentage |-> item.realizedPercentage,
                unrealized |-> unrealizedValue,
                unrealizedPercentage |-> Percentage(unrealizedValue, netPortfolioValue)]
    IN [i \in 1..Len(realizedChartData) |-> point(realizedChartData[i])]

(***************************************************************************)
(* The import of a transactions CSV (src/src/pages/Index.tsx,              *)
(* handleFileSelect, lines 177-261)                                        *)
(***************************************************************************)
\* the invocations of handleFileSelect that can be in flight at once
Handlers == {1, 2}

\* the transactions parseDeGiroCSV returns: a purchase and a sale of the stock
ParsedRows ==
    { [datum |-> [dd |-> 15, MM |-> 12, yyyy |-> 2024], tijd |-> t,
       product |-> <<"A", "S", "M", "L">>, isin |-> "NL0010273215",
       aantal |-> q, koers |-> Frac(1, 2),
       waarde |-> ExportWaarde(<<"A", "S", "M", "L">>, q, Frac(1, 2)),
       transactiekosten |-> Frac(-1, 2),
       totaal |-> RAdd(ExportWaarde(<<"A", "S", "M", "L">>, q, Frac(1, 2)), Frac(-1, 2))] :
        t \in Tijden, q \in {-1, 2} }

\* the files: their parsed transactions, none for a file without rows
Files == SeqsUpTo(ParsedRows, MaxFileRows)

\* the fingerprint of lines 203 and 211; the columns are numbers and strings on
\* both sides (integrations/supabase/types.ts), so the strings are equal exactly
\* when the fields are
Fingerprint(t) ==
    <<t.datum, t.tijd, t.product, t.isin, t.aantal, t.koers, t.waarde, t.totaal,
      t.transactiekosten>>

\* the rows of a table: how many times each row is stored
NoRows == [t \in ParsedRows |-> 0]

\* the fingerprints of the stored rows (lines 193-205)
ExistingFingerprints(stored) == { Fingerprint(t) : t \in { r \in ParsedRows : stored[r] > 0 } }

\* parsedTransactions.filter (lines 210-213)
NewTransactions(parsedTransactions, existingFingerprints) ==
    LET new(t) == Fingerprint(t) \notin existingFingerprints
    IN SelectSeq(parsedTransactions, new)

\* the table after insert(newTransactions) (lines 223-246)
Inserted(stored, newTransactions) ==
    [t \in ParsedRows |->
        stored[t] + Cardinality({ i \in 1..Len(newTransactions) : newTransactions[i] = t })]

\* an invocation that has not started or has returned
Idle ==
    [pc |-> "idle", parsedTransactions |-> << >>, existingFingerprints |-> {},
     newTransactions |-> << >>]

\* the page before an import: an empty table, no invocation in flight
ImportStart ==
    [stored |-> NoRows, transactions |-> NoRows, started |-> 0,
     handlers |-> [h \in Handlers |-> Idle]]

(***************************************************************************)
(* State: the walks over one input, element by element of allEvents        *)
(***************************************************************************)
VARIABLES
    event,          \* the element of allEvents processed last (Undefined before the first)
    processed,      \* number of elements processed
    portfolio,      \* locals of calculatePortfolioOverTime
    realized,       \* locals of calculateRealizedPLOverTime
    yearly,         \* locals of calculateYearlyReturns
    monthly,        \* locals of calculateMonthlyReturns
    ytd,            \* per invocation: locals of the walk calculateYTDPerformance runs
    now,            \* per invocation: what new Date() reads
    returned,       \* the loops are over and the functions have returned
    currentPrices,  \* the currentPrices argument of calculatePortfolioOverTime
    appended,       \* per invocation: the snapshots appended after the loop
    sumDeposits,    \* sum of the deposit amounts processed
    sumRealizedPL,  \* sum of the realizedPL increments of calculatePortfolioOverTime
    transactionYears, \* the calendar years of the transactions processed
    chart,          \* what PortfolioChart has rendered (Undefined before it has)
    call,           \* the arrays handed to a call, its allEvents and its position
    imports         \* the transactions table, the page's transactions and the
                    \* invocations of handleFileSelect

vars ==
    <<event, processed, portfolio, realized, yearly, monthly, ytd, now, returned,
      currentPrices, appended, sumDeposits, sumRealizedPL, transactionYears, chart,
      call, imports>>

\* position of an event type among events of one date: the order of the pushes
\* (lines 394-413, 707-726), which the sort keeps
PushOrder(type) == IF type = "transaction" THEN 1 ELSE IF type = "deposit" THEN 2 ELSE 3

SortedAnyOrder(e) == TRUE

\* allEvents.sort((a, b) => a.date.getTime() - b.date.getTime()): e can follow event
SortedAfter(e) ==
    IF event = Undefined THEN TRUE
    ELSE IF GetTime(e.date) = GetTime(event[1].date)
    THEN PushOrder(e.type) >= PushOrder(event[1].type)
    ELSE GetTime(e.date) > GetTime(event[1].date)

\* a call whose arrays are not looked at: the walks take any sorted allEvents
AnyCall ==
    [transactions |-> << >>, accountActivities |-> << >>, priceHistory |-> << >>,
     pushed |-> << >>, allEvents |-> << >>, pc |-> "any"]

\* the locals of the walks before their loops
InitLocals(clocks) ==
    /\ event = Undefined
    /\ processed = 0
    /\ portfolio = PortfolioStart
    /\ realized = RealizedStart
    /\ yearly = [yearlyMap |-> EmptyMap, holdingsMap |-> EmptyMap]
    /\ monthly = [monthlyMap |-> EmptyMap, holdingsMap |-> EmptyMap]
    /\ ytd = [i \in Invocations |-> PortfolioStart]
    /\ now = clocks
    /\ returned = FALSE
    /\ currentPrices = EmptyMap
    /\ appended = [i \in Invocations |-> << >>]
    /\ sumDeposits = Zero
    /\ sumRealizedPL = Zero
    /\ transactionYears = {}
    /\ chart = Undefined
    /\ imports = ImportStart

InitWith(clocks) == InitLocals(clocks) /\ call = AnyCall

Init == InitWith([i \in Invocations |-> LatestClock])

\* the optional increment as a number
OrZero(optional) == IF optional = Undefined THEN Zero ELSE optional[1]

\* All walks take the element e of allEvents; a walk that does not collect
\* events of e's type does not see it.
Process(e, limit) ==
    /\ ~returned
    /\ processed < limit
    /\ SortedAfter(e)
    /\ event' = Some(e)
    /\ processed' = processed + 1
    /\ portfolio' = IF e.type = "dividend" THEN portfolio ELSE PortfolioEvent(portfolio, e)
    /\ realized' = IF e.type \in {"transaction", "deposit"}
                   THEN RealizedEvent(realized, e) ELSE realized
    /\ yearly' = IF e.type = "price_update" THEN yearly ELSE YearlyEvent(yearly, e)
    /\ monthly' = IF e.type = "price_update" THEN monthly ELSE MonthlyEvent(monthly, e)
    /\ ytd' = [i \in Invocations |->
                  IF e.type \in {"transaction", "deposit"} /\ InYTD(e.date, now[i])
                  THEN PortfolioEvent(ytd[i], e) ELSE ytd[i]]
    /\ sumDeposits' = IF e.type = "deposit" THEN RAdd(sumDeposits, e.data.mutatie)
                      ELSE sumDeposits
    /\ sumRealizedPL' = IF e.type = "transaction"
                        THEN RAdd(sumRealizedPL, OrZero(portfolio'.realizedPL))
                        ELSE sumRealizedPL
    /\ transactionYears' = IF e.type = "transaction"
                           THEN transactionYears \cup {e.date.yyyy}
                           ELSE transactionYears
    /\ UNCHANGED <<now, returned, currentPrices, appended, chart, call, imports>>

TransactionEvent(limit) ==
    \E transaction \in TransactionRows :
        Process([date |-> ParseDatumTijd(transaction.datum, transaction.tijd),
                 type |-> "transaction", data |-> transaction], limit)

DepositEvent(limit) ==
    \E activity \in AccountActivityRows :
        /\ IsDepositDescription(activity.omschrijving)
        /\ Process([date |-> ParseDatumTijd(activity.datum, activity.tijd),
                    type |-> "deposit", data |-> activity], limit)

PriceUpdateEvent(limit) ==
    \E priceUpdate \in PriceHistoryRows :
        Process([date |-> priceUpdate.timestamp, type |-> "price_update",
                 data |-> priceUpdate], limit)

DividendEvent(limit) ==
    \E dividend \in DividendRows :
        Process([date |-> ParseDate(dividend.date), type |-> "dividend",
                 data |-> dividend], limit)

\* The end of the loops: calculatePortfolioOverTime appends its final snapshot
\* (lines 492-507), in each invocation under that invocation's clock.
Return ==
    /\ ~returned
    /\ returned' = TRUE
    /\ \E prices \in CurrentPriceMaps :
        /\ currentPrices' = prices
        /\ appended' = [i \in Invocations |-> FinalSnapshot(portfolio, prices, now[i])]
    /\ UNCHANGED <<event, processed, portfolio, realized, yearly, monthly, ytd, now,
                   sumDeposits, sumRealizedPL, transactionYears, chart, call, imports>>

Next ==
    \/ TransactionEvent(MaxEvents)
    \/ DepositEvent(MaxEvents)
    \/ PriceUpdateEvent(MaxEvents)
    \/ DividendEvent(MaxEvents)
    \/ Return

Spec == Init /\ [][Next]_vars

\* The same walks, run by two invocations whose clocks read anything
InitClocks == \E clocks \in [Invocations -> Clocks] : InitWith(clocks)

NextClocks ==
    \/ TransactionEvent(MaxClockEvents)
    \/ DepositEvent(MaxClockEvents)
    \/ PriceUpdateEvent(MaxClockEvents)
    \/ DividendEvent(MaxClockEvents)
    \/ Return

SpecClocks == InitClocks /\ [][NextClocks]_vars

\* PortfolioChart renders the buckets the reporters return (lines 37, 125-134);
\* it hands them the transactions and account activities, no dividends
RenderChart ==
    /\ ~returned
    /\ returned' = TRUE
    /\ \E totalValue \in TotalValues, borrowedAmount \in BorrowedAmounts :
          LET netPortfolioValue == NetPortfolioValue(totalValue, borrowedAmount) IN
          chart' = Some([netPortfolioValue |-> netPortfolioValue,
                         monthlyData |-> ChartData(monthly.monthlyMap, netPortfolioValue),
                         yearlyData |-> ChartData(yearly.yearlyMap, netPortfolioValue)])
    /\ UNCHANGED <<event, processed, portfolio, realized, yearly, monthly, ytd, now,
                   currentPrices, appended, sumDeposits, sumRealizedPL, transactionYears,
                   call, imports>>

NextChart ==
    \/ TransactionEvent(MaxChartEvents)
    \/ DepositEvent(MaxChartEvents)
    \/ PriceUpdateEvent(MaxChartEvents)
    \/ RenderChart

SpecChart == Init /\ [][NextChart]_vars

\* One call on given arrays: the normalizer step by step, then the loop
InitCall ==
    /\ InitLocals([i \in Invocations |-> LatestClock])
    /\ \E transactions \in SeqsUpTo(InputTransactionRows, MaxTransactions),
          accountActivities \in SeqsUpTo(InputActivityRows, MaxActivities),
          priceHistory \in SeqsUpTo(InputPriceHistoryRows, MaxPriceHistory) :
          call = [transactions |-> transactions, accountActivities |-> accountActivities,
                  priceHistory |-> priceHistory, pushed |-> << >>, allEvents |-> << >>,
                  pc |-> "transactions"]

walkLocals ==
    <<event, processed, portfolio, realized, yearly, monthly, ytd, now, returned,
      currentPrices, appended, sumDeposits, sumRealizedPL, transactionYears, chart,
      imports>>

\* lines 394-399
PushTransactions ==
    /\ call.pc = "transactions"
    /\ call' = [call EXCEPT !.allEvents = @ \o TransactionEvents(call.transactions),
                            !.pc = "accountActivities"]
    /\ UNCHANGED walkLocals

\* lines 401-406
PushDeposits ==
    /\ call.pc = "accountActivities"
    /\ call' = [call EXCEPT !.allEvents = @ \o DepositEvents(call.accountActivities),
                            !.pc = "priceHistory"]
    /\ UNCHANGED walkLocals

\* lines 408-413
PushPriceUpdates ==
    /\ call.pc = "priceHistory"
    /\ call' = [call EXCEPT !.allEvents = @ \o PriceUpdateEvents(call.priceHistory),
                            !.pc = "sort"]
    /\ UNCHANGED walkLocals

\* line 415; pushed keeps allEvents as it was before the sort
Sort ==
    /\ call.pc = "sort"
    /\ call' = [call EXCEPT !.pushed = call.allEvents,
                            !.allEvents = SortEvents(call.allEvents),
                            !.pc = "forEach"]
    /\ UNCHANGED walkLocals

\* allEvents.forEach (lines 420-490): the iteration of the next element
ForEach ==
    /\ call.pc = "forEach"
    /\ processed < Len(call.allEvents)
    /\ Process(call.allEvents[processed + 1], Len(call.allEvents))

NextCall ==
    \/ PushTransactions
    \/ PushDeposits
    \/ PushPriceUpdates
    \/ Sort
    \/ ForEach

SpecCall == InitCall /\ [][NextCall]_vars

\* Imports: each await of handleFileSelect ends a step, and steps of the
\* invocations in flight interleave
engineVars ==
    <<event, processed, portfolio, realized, yearly, monthly, ytd, now, returned,
      currentPrices, appended, sumDeposits, sumRealizedPL, transactionYears, chart, call>>

\* lines 180-186: await parseDeGiroCSV(file); an empty result returns
ParseDeGiroCSV(h) ==
    /\ imports.handlers[h].pc = "idle"
    /\ imports.started < MaxImports
    /\ \E file \in Files :
          imports' = [imports EXCEPT
                         !.started = @ + 1,
                         !.handlers[h] =
                             IF Len(file) = 0 THEN Idle
                             ELSE [Idle EXCEPT !.pc = "select",
                                               !.parsedTransactions = file]]
    /\ UNCHANGED engineVars

\* lines 193-220: await select; the fingerprints, the filter, and the return
\* when nothing is new
SelectExisting(h) ==
    /\ imports.handlers[h].pc = "select"
    /\ LET existingFingerprints == ExistingFingerprints(imports.stored)
           newTransactions == NewTransactions(imports.handlers[h].parsedTransactions,
                                              existingFingerprints)
       IN imports' = [imports EXCEPT
                         !.handlers[h] =
                             IF Len(newTransactions) = 0 THEN Idle
                             ELSE [@ EXCEPT !.pc = "insert",
                                            !.existingFingerprints = existingFingerprints,
                                            !.newTransactions = newTransactions]]
    /\ UNCHANGED engineVars

\* lines 223-251: await insert(newTransactions)
InsertNew(h) ==
    /\ imports.handlers[h].pc = "insert"
    /\ imports' = [imports EXCEPT
                      !.stored = Inserted(@, imports.handlers[h].newTransactions),
                      !.handlers[h].pc = "reload"]
    /\ UNCHANGED engineVars

\* lines 254-255: await loadDataFromDatabase (lines 74-104: setTransactions)
LoadDataFromDatabase(h) ==
    /\ imports.handlers[h].pc = "reload"
    /\ imports' = [imports EXCEPT !.transactions = imports.stored,
                                  !.handlers[h] = Idle]
    /\ UNCHANGED engineVars

NextImport ==
    \E h \in Handlers :
        \/ ParseDeGiroCSV(h)
        \/ SelectExisting(h)
        \/ InsertNew(h)
        \/ LoadDataFromDatabase(h)

SpecImport == Init /\ [][NextImport]_vars

(***************************************************************************)
(* Vocabulary of the properties                                            *)
(***************************************************************************)
\* the element processed last is a transaction
TransactionProcessed == event # Undefined /\ event[1].type = "transaction"

\* the step processes a transaction
TransactionStep == processed' = processed + 1 /\ event'[1].type = "transaction"

\* how transaction t meets the open position held (quantity Q, t.aantal = delta)
Extends(held, t) == Sign(held.quantity) = Sign(t.aantal)

Reduces(held, t) ==
    Sign(held.quantity) = -Sign(t.aantal) /\ Abs(t.aantal) < Abs(held.quantity)

Closes(held, t) == held.quantity + t.aantal = 0

Flips(held, t) ==
    Sign(held.quantity) = -Sign(t.aantal) /\ Abs(t.aantal) > Abs(held.quantity)

MinOf(a, b) == IF a < b THEN a ELSE b

\* average unit cost of a position: |cost basis| / |quantity|, per unit of the
\* contract size (1 for an equity)
UnitCost(held, product) ==
    RDiv(RAbs(held.totalCost), Num(Abs(held.quantity) * ContractSize(product)))

\* realized P&L on the closed slice: the share closedQty/|delta| of the cash flow
\* of the transaction plus the share closedQty/|Q| of the (signed) cost basis,
\* which for a long position is proceeds - average unit cost x closedQty
SliceRealizedPL(held, t) ==
    LET closedQty == MinOf(Abs(held.quantity), Abs(t.aantal)) IN
    RAdd(RMul(t.waarde, Frac(closedQty, Abs(t.aantal))),
         RMul(held.totalCost, Frac(closedQty, Abs(held.quantity))))

\* the position of the transaction processed last, after it
HeldNow(walk) == walk.holdingsMap[Key(event[1].data)]

(***************************************************************************)
(* C1: a transaction of opposite sign and smaller magnitude than the open  *)
(* position raises the cumulative realized value, at that event, by its    *)
(* cash flow minus average unit cost x closed quantity (both snapshot      *)
(* walks).                                                                 *)
(***************************************************************************)
C1_PartialCloseRealizes ==
    [][(/\ TransactionStep
        /\ portfolio'.existing # Undefined
        /\ Reduces(portfolio'.existing[1], event'[1].data))
       => /\ portfolio'.realizedValue =
                RAdd(portfolio.realizedValue,
                     SliceRealizedPL(portfolio'.existing[1], event'[1].data))
          /\ realized'.realizedValue =
                RAdd(realized.realizedValue,
                     SliceRealizedPL(realized'.existing[1], event'[1].data))]_vars

(***************************************************************************)
(* C2: a sign flip realizes on the closed quantity |Q| only, at the        *)
(* existing average cost against the proportional share of the proceeds,   *)
(* and leaves quantity Q + delta at a unit cost equal to the transaction's *)
(* own price.                                                              *)
(***************************************************************************)
C2_SignFlip ==
    [][(/\ TransactionStep
        /\ portfolio'.existing # Undefined
        /\ Flips(portfolio'.existing[1], event'[1].data))
       => LET t == event'[1].data
              held == portfolio'.existing[1]
              after == portfolio'.holdingsMap[Key(t)]
          IN /\ portfolio'.realizedValue =
                    RAdd(portfolio.realizedValue, SliceRealizedPL(held, t))
             /\ realized'.realizedValue =
                    RAdd(realized.realizedValue, SliceRealizedPL(realized'.existing[1], t))
             /\ after.quantity = held.quantity + t.aantal
             /\ UnitCost(after, t.product) = t.koers]_vars

(***************************************************************************)
(* C3: the value of every snapshot of calculatePortfolioOverTime is the    *)
(* deposits processed so far + the realized P&L increments emitted so far  *)
(* + the unrealized value of the open positions at the prices in force.    *)
(***************************************************************************)
C3_AccountingIdentity ==
    /\ Len(portfolio.snapshots) > 0 =>
          portfolio.snapshots[Len(portfolio.snapshots)].value =
              RAdd(RAdd(sumDeposits, sumRealizedPL),
                   CalculateUnrealizedValue(portfolio.holdingsMap,
                                            portfolio.historicalPrices))
    /\ \A i \in Invocations :
          Len(appended[i]) > 0 =>
              appended[i][1].value =
                  RAdd(RAdd(sumDeposits, sumRealizedPL),
                       CalculateUnrealizedValue(portfolio.holdingsMap, currentPrices))

\* a snapshot with a realized increment behind it and a priced open position
C3_Witness ==
    /\ Len(portfolio.snapshots) = MaxEvents
    /\ sumRealizedPL # Zero
    /\ CalculateUnrealizedValue(portfolio.holdingsMap, portfolio.historicalPrices) # Zero
    /\ portfolio.snapshots[Len(portfolio.snapshots)].value # portfolio.realizedValue

(***************************************************************************)
(* C4: a realized P&L increment is recognized at a transaction if and only *)
(* if the transaction reduces, closes or flips an existing position: not   *)
(* on an open or an extension, and on a reduction at its own event.        *)
(***************************************************************************)
C4_RealizedIffReducing ==
    TransactionProcessed =>
        /\ (portfolio.realizedPL # Undefined) <=>
               (portfolio.existing # Undefined
                    /\ ~Extends(portfolio.existing[1], event[1].data))
        /\ (realized.realizedPL # Undefined) <=>
               (realized.existing # Undefined
                    /\ ~Extends(realized.existing[1], event[1].data))

(***************************************************************************)
(* C5: a transaction that reduces a position without closing it leaves    *)
(* the average unit cost unchanged and sets the quantity to Q + delta.     *)
(***************************************************************************)
C5_ReduceKeepsAverage ==
    (/\ TransactionProcessed
     /\ portfolio.existing # Undefined
     /\ Reduces(portfolio.existing[1], event[1].data))
    => LET t == event[1].data IN
       /\ HeldNow(portfolio).quantity = portfolio.existing[1].quantity + t.aantal
       /\ UnitCost(HeldNow(portfolio), t.product) = UnitCost(portfolio.existing[1], t.product)

(***************************************************************************)
(* C6: a transaction of opposite sign with |delta| = |Q| realizes the      *)
(* existing cost basis + the full proceeds at that event and removes the   *)
(* position from the map; closing at the opening price realizes 0.         *)
(***************************************************************************)
C6_FullClose ==
    [][(/\ TransactionStep
        /\ portfolio'.existing # Undefined
        /\ Closes(portfolio'.existing[1], event'[1].data))
       => LET t == event'[1].data
              held == portfolio'.existing[1]
              increment == RAdd(held.totalCost, t.waarde)
          IN /\ portfolio'.realizedValue = RAdd(portfolio.realizedValue, increment)
             /\ Key(t) \notin DOMAIN portfolio'.holdingsMap
             /\ realized'.realizedValue =
                    RAdd(realized.realizedValue,
                         RAdd(realized'.existing[1].totalCost, t.waarde))
             /\ Key(t) \notin DOMAIN realized'.holdingsMap
             /\ held.totalCost = ExportWaarde(t.product, held.quantity, t.koers)
                    => portfolio'.realizedValue = portfolio.realizedValue]_vars

\* a position opened by one transaction and closed by the offsetting one at
\* the same price
C6_Witness ==
    /\ TransactionProcessed
    /\ processed = 2
    /\ portfolio.existing # Undefined
    /\ Closes(portfolio.existing[1], event[1].data)
    /\ portfolio.existing[1].totalCost = RNeg(event[1].data.waarde)
    /\ portfolio.realizedPL = Some(Zero)
    /\ realized.realizedPL = Some(Zero)
    /\ Key(event[1].data) \notin DOMAIN portfolio.holdingsMap

(***************************************************************************)
(* C7: a transaction with the sign of the open position (Q, average P)     *)
(* yields quantity Q + delta at the average unit cost                      *)
(* (|Q| x P + |delta| x price) / |Q + delta| and emits no realized P&L.    *)
(***************************************************************************)
C7_ExtendWeightedAverage ==
    (/\ TransactionProcessed
     /\ portfolio.existing # Undefined
     /\ Extends(portfolio.existing[1], event[1].data))
    => LET t == event[1].data
           held == portfolio.existing[1]
           weighted ==
               RDiv(RAdd(RMul(Num(Abs(held.quantity)), UnitCost(held, t.product)),
                         RMul(Num(Abs(t.aantal)), t.koers)),
                    Num(Abs(held.quantity + t.aantal)))
       IN /\ HeldNow(portfolio).quantity = held.quantity + t.aantal
          /\ UnitCost(HeldNow(portfolio), t.product) = weighted
          /\ portfolio.realizedPL = Undefined

(***************************************************************************)
(* C8: in every snapshot an open position with a resolvable price adds     *)
(* (price - average unit cost) x signed quantity x multiplier to the       *)
(* unrealized value, the multiplier being 100 for options and 1 for        *)
(* equities (short 2 options at 1.50, price 0.50: +200).                   *)
(***************************************************************************)
C8_UnrealizedContribution ==
    \A key \in DOMAIN portfolio.holdingsMap :
        LET held == portfolio.holdingsMap[key] IN
        held.isin \in DOMAIN portfolio.historicalPrices =>
            HoldingUnrealized(held, portfolio.historicalPrices) =
                RMul(RSub(portfolio.historicalPrices[held.isin],
                          UnitCost(held, held.product)),
                     Num(held.quantity * ContractSize(held.product)))

(***************************************************************************)
(* C9: two invocations on identical inputs return identical outputs,       *)
(* whenever each of them runs.                                             *)
(***************************************************************************)
\* what calculatePortfolioOverTime returns in invocation i
PortfolioOutput(i) == portfolio.snapshots \o appended[i]

\* what calculateYTDPerformance returns in invocation i
YTDOutput(i) == ytd[i].snapshots

YearsSeen ==
    { k[2] : k \in DOMAIN monthly.monthlyMap } \cup DOMAIN yearly.yearlyMap
        \cup transactionYears

MonthsOfYear(y) == { k \in DOMAIN monthly.monthlyMap : k[2] = y }

MonthlyRealizedOfYear(y) ==
    RSum([k \in MonthsOfYear(y) |-> Realized(monthly.monthlyMap[k])], MonthsOfYear(y))

YearlyRealizedOfYear(y) ==
    IF y \in DOMAIN yearly.yearlyMap THEN Realized(yearly.yearlyMap[y]) ELSE Zero

C10_BucketConsistency ==
    Cardinality(transactionYears) <= 1 =>
        \A y \in YearsSeen : MonthlyRealizedOfYear(y) = YearlyRealizedOfYear(y)

\* a year with two month buckets, one of them holding a realized close
C10_Witness ==
    /\ Cardinality(transactionYears) = 1
    /\ \E y \in transactionYears :
          /\ Cardinality(MonthsOfYear(y)) = 2
          /\ \E k \in MonthsOfYear(y) : monthly.monthlyMap[k].realized # Zero
          /\ YearlyRealizedOfYear(y) # Zero

(***************************************************************************)
(* C11: without dividends, the realized figures of all buckets of          *)
(* calculateMonthlyReturns, and of calculateYearlyReturns, add up to the   *)
(* cumulative realized P&L of calculateRealizedPLOverTime over the same    *)
(* transactions (its last snapshot value minus the deposits), sign flips   *)
(* and partial closes included.                                            *)
(***************************************************************************)
\* sum of the realized figures returned for the buckets of map
BucketsRealized(map) == RSum([k \in DOMAIN map |-> Realized(map[k])], DOMAIN map)

NoDividends ==
    \A k \in DOMAIN yearly.yearlyMap : yearly.yearlyMap[k].dividends = Zero

\* the cumulative realized P&L of calculateRealizedPLOverTime
CumulativeRealizedPL == RSub(realized.realizedValue, sumDeposits)

C11_BucketsMatchWalk ==
    NoDividends =>
        /\ BucketsRealized(monthly.monthlyMap) = CumulativeRealizedPL
        /\ BucketsRealized(yearly.yearlyMap) = CumulativeRealizedPL

(***************************************************************************)
(* C12: the percentage shown for every monthly and yearly bucket is        *)
(* bucketRealized / net value x 100 when the net value (portfolio value    *)
(* minus borrowed amount) is not 0, and 0 when it is 0; it is never the    *)
(* result of a division by zero.                                           *)
(***************************************************************************)
GuardedPercentage(bucketRealized, netValue) ==
    IF netValue # Zero THEN RMul(RDiv(bucketRealized, netValue), Num(100)) ELSE Zero

C12_PercentageGuarded ==
    chart # Undefined =>
        LET c == chart[1] IN
        /\ \A k \in DOMAIN c.monthlyData :
              /\ c.monthlyData[k].percentage =
                     GuardedPercentage(c.monthlyData[k].realized, c.netPortfolioValue)
              /\ IsFinite(c.monthlyData[k].percentage)
        /\ \A k \in DOMAIN c.yearlyData :
              /\ c.yearlyData[k].percentage =
                     GuardedPercentage(c.yearlyData[k].realized, c.netPortfolioValue)
              /\ IsFinite(c.yearlyData[k].percentage)

(***************************************************************************)
(* C13: with a price timeline, the snapshot of an event values each open   *)
(* position at the most recent price observation of its instrument at or   *)
(* before the timestamp of the event, an observation with the event's own  *)
(* timestamp included: when the walk comes to an observation that carries  *)
(* the timestamp of the transaction or deposit processed just before it,   *)
(* the snapshot of that event has valued the instrument, if held, at the   *)
(* price of an observation of that timestamp.                              *)
(***************************************************************************)
\* the instrument isin is held in the walk
Held(walk, isin) ==
    \E key \in DOMAIN walk.holdingsMap : walk.holdingsMap[key].isin = isin

C13_PriceAtOrBefore ==
    [][(/\ processed' = processed + 1
        /\ event # Undefined
        /\ event'[1].type = "price_update"
        /\ event[1].type # "price_update"
        /\ GetTime(event[1].date) = GetTime(event'[1].date)
        /\ Held(portfolio, event'[1].data.isin))
       => /\ event'[1].data.isin \in DOMAIN portfolio.historicalPrices
          /\ \E observation \in PriceHistoryRows :
                /\ observation.isin = event'[1].data.isin
                /\ GetTime(observation.timestamp) = GetTime(event[1].date)
                /\ portfolio.historicalPrices[observation.isin] = observation.price]_vars

(***************************************************************************)
(* C14: without a price timeline but with a current-price map, the         *)
(* unrealized component of every per-event snapshot is computed from the   *)
(* current-price map; stated for the snapshot of the last event, whose     *)
(* positions the walk still holds.                                         *)
(***************************************************************************)
LastSnapshot(walk) == walk.snapshots[Len(walk.snapshots)]

C14_CurrentPricesPerEvent ==
    (/\ returned
     /\ DOMAIN currentPrices # {}
     /\ DOMAIN portfolio.historicalPrices = {}
     /\ Len(portfolio.snapshots) > 0)
    => LastSnapshot(portfolio).value =
           RAdd(portfolio.realizedValue,
                CalculateUnrealizedValue(portfolio.holdingsMap, currentPrices))

(***************************************************************************)
(* C15: after the loop calculatePortfolioOverTime appends exactly one      *)
(* final snapshot, of the value realized + unrealized at current prices,   *)
(* if a (non-empty) current-price map is supplied and that value differs   *)
(* by more than 0.01 from the value of the last snapshot emitted; it       *)
(* appends none otherwise.                                                 *)
(***************************************************************************)
\* the value the current-price map implies
CurrentValue ==
    RAdd(RAdd(sumDeposits, sumRealizedPL),
         CalculateUnrealizedValue(portfolio.holdingsMap, currentPrices))

DiffersMaterially ==
    /\ DOMAIN currentPrices # {}
    /\ Len(portfolio.snapshots) > 0
    /\ LET difference == RSub(CurrentValue, LastSnapshot(portfolio).value) IN
       RGt(difference, Frac(1, 100)) \/ RGt(Frac(-1, 100), difference)

C15_FinalSnapshot ==
    \A i \in Invocations :
        /\ Len(appended[i]) = IF returned /\ DiffersMaterially THEN 1 ELSE 0
        /\ Len(appended[i]) = 1 => appended[i][1].value = CurrentValue

\* a final snapshot appended after a walk of MaxEvents events that saw prices
C15_Witness ==
    /\ returned
    /\ Len(portfolio.snapshots) = MaxEvents
    /\ DOMAIN portfolio.historicalPrices # {}
    /\ Len(appended[1]) = 1
    /\ appended[1][1].value = CurrentValue
    /\ appended[1][1].value # portfolio.realizedValue

(***************************************************************************)
(* C16: calculatePortfolioOverTime and calculateRealizedPLOverTime emit    *)
(* exactly one snapshot per event they process, in event order: each event *)
(* of a walk appends one snapshot carrying the timestamp of the event, an  *)
(* event the walk does not collect appends none, and the timestamps of the *)
(* snapshots are non-decreasing.                                           *)
(***************************************************************************)
\* snapshots is before followed by one snapshot dated date
AppendsOne(before, snapshots, date) ==
    /\ Len(snapshots) = Len(before) + 1
    /\ SubSeq(snapshots, 1, Len(before)) = before
    /\ snapshots[Len(snapshots)].date = date

NonDecreasing(snapshots) ==
    \A i \in 1..(Len(snapshots) - 1) :
        GetTime(snapshots[i].date) <= GetTime(snapshots[i + 1].date)

C16_OneSnapshotPerEvent ==
    [][processed' = processed + 1
       => LET e == event'[1] IN
          /\ IF e.type \in {"transaction", "deposit", "price_update"}
             THEN AppendsOne(portfolio.snapshots, portfolio'.snapshots, e.date)
             ELSE portfolio'.snapshots = portfolio.snapshots
          /\ IF e.type \in {"transaction", "deposit"}
             THEN AppendsOne(realized.snapshots, realized'.snapshots, e.date)
             ELSE realized'.snapshots = realized.snapshots
          /\ NonDecreasing(portfolio'.snapshots)
          /\ NonDecreasing(realized'.snapshots)]_vars

\* MaxEvents events of two timestamps, one of them a price observation
C16_Witness ==
    /\ processed = MaxEvents
    /\ Len(portfolio.snapshots) = MaxEvents
    /\ Len(realized.snapshots) = MaxEvents - 1
    /\ portfolio.snapshots[1].date # LastSnapshot(portfolio).date
    /\ realized.snapshots[1].date # LastSnapshot(realized).date

(***************************************************************************)
(* C17: the normalizer hands the walk its events in ascending order of     *)
(* timestamp, events of one timestamp in the order in which they were      *)
(* pushed from the input arrays (stable tie-break), whatever the order of  *)
(* the input; the walk processes them in that order.                       *)
(***************************************************************************)
\* the events of s dated date, in their order in s
EventsAt(s, date) ==
    LET AtDate(e) == e.date = date IN SelectSeq(s, AtDate)

DatesOf(s) == { s[i].date : i \in 1..Len(s) }

C17_StableAscending ==
    call.pc = "forEach" =>
        /\ Len(call.allEvents) = Len(call.pushed)
        /\ \A i, j \in 1..Len(call.allEvents) :
              i < j => GetTime(call.allEvents[i].date) <= GetTime(call.allEvents[j].date)
        /\ \A date \in DatesOf(call.pushed) \cup DatesOf(call.allEvents) :
              EventsAt(call.allEvents, date) = EventsAt(call.pushed, date)
        /\ processed > 0 => event[1] = call.allEvents[processed]

\* an input in descending order of time with two different transactions of one
\* timestamp, all processed
C17_Witness ==
    /\ call.pc = "forEach"
    /\ processed = Len(call.allEvents)
    /\ processed >= 3
    /\ call.allEvents # call.pushed
    /\ \E i \in 1..(Len(call.allEvents) - 1) :
          /\ call.allEvents[i].date = call.allEvents[i + 1].date
          /\ call.allEvents[i].type = "transaction"
          /\ call.allEvents[i + 1].type = "transaction"
          /\ call.allEvents[i].data # call.allEvents[i + 1].data

(***************************************************************************)
(* C18: a transaction of quantity 0 is a no-op in the ledger walks: it     *)
(* creates, modifies and removes no position and emits no realized P&L,    *)
(* and the positions and the realized value at the end of the walk are     *)
(* those of the walk over the input without the transactions of quantity   *)
(* 0.                                                                      *)
(***************************************************************************)
\* allEvents of a call on the given arrays (calculateRealizedPLOverTime takes
\* no priceHistory: lines 284-300)
NormalizeEvents(transactions, accountActivities, priceHistory) ==
    SortEvents(TransactionEvents(transactions) \o DepositEvents(accountActivities)
                   \o PriceUpdateEvents(priceHistory))

RECURSIVE PortfolioWalk(_, _)
\* the locals of calculatePortfolioOverTime after the loop over events
PortfolioWalk(walk, events) ==
    IF events = << >> THEN walk
    ELSE PortfolioWalk(PortfolioEvent(walk, Head(events)), Tail(events))

RECURSIVE RealizedWalk(_, _)
\* the locals of calculateRealizedPLOverTime after the loop over events
RealizedWalk(walk, events) ==
    IF events = << >> THEN walk
    ELSE RealizedWalk(RealizedEvent(walk, Head(events)), Tail(events))

WithoutZeroQuantity(transactions) ==
    LET NonZero(transaction) == transaction.aantal # 0 IN SelectSeq(transactions, NonZero)

LoopDone == call.pc = "forEach" /\ processed = Len(call.allEvents)

C18_ZeroQuantityNoOp ==
    [][/\ (/\ processed' = processed + 1
           /\ event'[1].type = "transaction"
           /\ event'[1].data.aantal = 0)
          => /\ portfolio'.holdingsMap = portfolio.holdingsMap
             /\ portfolio'.realizedValue = portfolio.realizedValue
             /\ portfolio'.realizedPL = Undefined
             /\ realized'.holdingsMap = realized.holdingsMap
             /\ realized'.realizedValue = realized.realizedValue
             /\ realized'.realizedPL = Undefined
       /\ LoopDone'
          => LET events == NormalizeEvents(WithoutZeroQuantity(call'.transactions),
                                           call'.accountActivities, call'.priceHistory)
                 expected == PortfolioWalk(PortfolioStart, events)
                 expectedRealized ==
                     RealizedWalk(RealizedStart,
                                  NormalizeEvents(WithoutZeroQuantity(call'.transactions),
                                                  call'.accountActivities, << >>))
             IN /\ portfolio'.holdingsMap = expected.holdingsMap
                /\ portfolio'.realizedValue = expected.realizedValue
                /\ realized'.realizedValue = expectedRealized.realizedValue]_vars

(***************************************************************************)
(* C19: a transaction or cash activity whose date/time fails to parse is   *)
(* dropped by the normalizer: it gives no event and no snapshot and        *)
(* changes no position or total, and the output is the output for the      *)
(* input without that record.                                              *)
(***************************************************************************)
\* the date/time of the record parses
Parses(record) == ValidDatum(record.datum)

WithoutUnparsed(records) == SelectSeq(records, Parses)

\* the number of records whose date/time parses
CountParsed(records) == Cardinality({ i \in 1..Len(records) : Parses(records[i]) })

C19_UnparsedDropped ==
    /\ \A i \in 1..Len(call.allEvents) :
          /\ ~IsInvalidDate(call.allEvents[i].date)
          /\ call.allEvents[i].type \in {"transaction", "deposit"}
                => Parses(call.allEvents[i].data)
    /\ call.pc \in {"sort", "forEach"} =>
          Len(call.allEvents) =
              CountParsed(call.transactions) + CountParsed(call.accountActivities)
                  + Len(PriceUpdateEvents(call.priceHistory))
    /\ LoopDone =>
          LET events == NormalizeEvents(WithoutUnparsed(call.transactions),
                                        WithoutUnparsed(call.accountActivities),
                                        call.priceHistory)
              expected == PortfolioWalk(PortfolioStart, events)
              expectedRealized ==
                  RealizedWalk(RealizedStart,
                               NormalizeEvents(WithoutUnparsed(call.transactions),
                                               WithoutUnparsed(call.accountActivities),
                                               << >>))
          IN /\ portfolio.snapshots = expected.snapshots
             /\ portfolio.holdingsMap = expected.holdingsMap
             /\ portfolio.realizedValue = expected.realizedValue
             /\ realized.snapshots = expectedRealized.snapshots
             /\ Len(realized.snapshots) =
                    CountParsed(call.transactions) + CountParsed(call.accountActivities)
             /\ \A prices \in CurrentPriceMaps :
                   FinalSnapshot(portfolio, prices, LatestClock) =
                       FinalSnapshot(expected, prices, LatestClock)

\* a walk over an input with a transaction and a deposit that do not parse
\* and a transaction that does
C19_Witness ==
    /\ LoopDone
    /\ processed >= 1
    /\ \E i \in 1..Len(call.transactions) : ~Parses(call.transactions[i])
    /\ \E i \in 1..Len(call.transactions) : Parses(call.transactions[i])
    /\ \E i \in 1..Len(call.accountActivities) : ~Parses(call.accountActivities[i])
    /\ Len(portfolio.snapshots) < Len(call.transactions) + Len(call.accountActivities)

(***************************************************************************)
(* C20: an open position without a resolvable price does not abort the     *)
(* walk of calculatePortfolioOverTime: the snapshot of every event is      *)
(* emitted, and the position adds one fixed fallback value to the          *)
(* unrealized component, the same in every code path that values open      *)
(* positions: calculateUnrealizedValue per event and for the final         *)
(* snapshot, and calculateProfitLossByType.                                *)
(***************************************************************************)
\* the positions of the walk that no price of prices resolves
Unpriced(walk, prices) ==
    { key \in DOMAIN walk.holdingsMap :
        /\ walk.holdingsMap[key].quantity # 0
        /\ walk.holdingsMap[key].isin \notin DOMAIN prices }

C20_OneFallbackValue ==
    LoopDone =>
        /\ Len(portfolio.snapshots) = Len(call.allEvents)
        /\ \A key \in Unpriced(portfolio, portfolio.historicalPrices) :
              LET held == portfolio.holdingsMap[key]
                  byType == ProfitLossHoldings(call.transactions)
              IN /\ HoldingUnrealized(held, portfolio.historicalPrices) =
                        HoldingUnrealized(held, EmptyMap)
                 /\ (key \in DOMAIN byType /\ byType[key].quantity # 0)
                        => UnrealizedWithoutPrice(byType[key]) =
                               HoldingUnrealized(held, portfolio.historicalPrices)

(***************************************************************************)
(* C21: every Holding calculateHoldings returns carries the quantity and   *)
(* the average price of the final position of the ledger walk for its      *)
(* instrument: the weighted average unit cost of the open lot, unchanged   *)
(* by reductions and reset when the position closes and reopens;           *)
(* instruments whose final quantity is 0 are not returned.                 *)
(***************************************************************************)
\* the position ledger of the walk: per key the quantity and the average unit
\* cost of the open lot after transaction t
LedgerStep(ledger, t) ==
    LET key == Key(t) IN
    IF t.aantal = 0 THEN ledger
    ELSE IF key \notin DOMAIN ledger
    THEN MapSet(ledger, key, [quantity |-> t.aantal, averagePrice |-> RAbs(t.koers)])
    ELSE LET held == ledger[key]
             newQuantity == held.quantity + t.aantal
         IN IF newQuantity = 0 THEN MapDelete(ledger, key)
            ELSE IF Extends(held, t)
            THEN MapSet(ledger, key,
                        [quantity |-> newQuantity,
                         averagePrice |->
                             RDiv(RAdd(RMul(Num(Abs(held.quantity)), held.averagePrice),
                                       RMul(Num(Abs(t.aantal)), RAbs(t.koers))),
                                  Num(Abs(newQuantity)))])
            ELSE IF Reduces(held, t)
            THEN MapSet(ledger, key, [held EXCEPT !.quantity = newQuantity])
            ELSE MapSet(ledger, key,
                        [quantity |-> newQuantity, averagePrice |-> RAbs(t.koers)])

RECURSIVE Ledger(_, _)
\* the ledger after the transactions among events, in their order
Ledger(ledger, events) ==
    IF events = << >> THEN ledger
    ELSE Ledger(IF Head(events).type = "transaction"
                THEN LedgerStep(ledger, Head(events).data) ELSE ledger,
                Tail(events))

C21_HoldingsMatchLedger ==
    LoopDone =>
        LET holdings == CalculateHoldings(call.transactions)
            ledger == Ledger(EmptyMap, call.allEvents)
        IN /\ DOMAIN holdings = DOMAIN ledger
           /\ \A key \in DOMAIN holdings \cap DOMAIN ledger :
                 /\ holdings[key].quantity = ledger[key].quantity
                 /\ holdings[key].averagePrice = ledger[key].averagePrice

(***************************************************************************)
(* C22: with an empty transaction array and an empty cash-activity array   *)
(* calculatePortfolioOverTime and calculateRealizedPLOverTime return an    *)
(* empty snapshot list, also under a non-empty current-price map;          *)
(* calculateHoldings returns no holdings, calculateProfitLossByType        *)
(* returns all-zero figures and the bucketed reporters return no buckets.  *)
(***************************************************************************)
EmptyArrays == call.transactions = << >> /\ call.accountActivities = << >>

\* the all-zero figures of calculateProfitLossByType
ZeroFigures ==
    [optionsPL |-> Zero, stocksPL |-> Zero, portfolioValue |-> Zero, totalPL |-> Zero,
     optionsRealized |-> Zero, optionsUnrealized |-> Zero,
     stocksRealized |-> Zero, stocksUnrealized |-> Zero]

\* what the functions that do not take the price history return on empty arrays
EmptyOutputs ==
    /\ realized.snapshots = << >>
    /\ CalculateHoldings(call.transactions) = EmptyMap
    /\ \A prices \in CurrentPriceMaps :
          CalculateProfitLossByType(call.transactions,
                                    AllHoldings(call.transactions, prices)) = ZeroFigures
    /\ yearly.yearlyMap = EmptyMap
    /\ monthly.monthlyMap = EmptyMap
    /\ \A i \in Invocations : ytd[i].snapshots = << >>

ObservationsParsed ==
    { i \in 1..Len(call.priceHistory) : ~IsInvalidDate(call.priceHistory[i].timestamp) }

SamePositions(before, after, keys) ==
    \A key \in keys :
        /\ key \in DOMAIN before <=> key \in DOMAIN after
        /\ key \in DOMAIN before \cap DOMAIN after =>
              /\ after[key].quantity = before[key].quantity
              /\ after[key].totalCost = before[key].totalCost

\* the keys of the positions of either map
KeysOf(before, after) == DOMAIN before \cup DOMAIN after

C23_OtherPositionsUnchanged ==
    [][processed' = processed + 1 =>
          /\ event'[1].type = "transaction" =>
                LET others(before, after) ==
                        KeysOf(before, after) \ {Key(event'[1].data)}
                IN /\ SamePositions(portfolio.holdingsMap, portfolio'.holdingsMap,
                                    others(portfolio.holdingsMap, portfolio'.holdingsMap))
                   /\ SamePositions(realized.holdingsMap, realized'.holdingsMap,
                                    others(realized.holdingsMap, realized'.holdingsMap))
          /\ event'[1].type \in {"deposit", "price_update"} =>
                /\ portfolio'.holdingsMap = portfolio.holdingsMap
                /\ realized'.holdingsMap = realized.holdingsMap]_vars

\* a transaction was processed while a position of another key is open
C23_Witness ==
    /\ TransactionProcessed
    /\ \E key \in DOMAIN portfolio.holdingsMap :
          /\ key # Key(event[1].data)
          /\ portfolio.holdingsMap[key].quantity # 0
    /\ Key(event[1].data) \in DOMAIN portfolio.holdingsMap

(***************************************************************************)
(* C24: whenever a walk computes a closed quantity for a realization, it   *)
(* is min(|Q|, |delta|), so it exceeds neither the open quantity |Q| nor   *)
(* the transacted quantity |delta|.                                        *)
(***************************************************************************)
\* the closed quantity the walk computed for the transaction processed last
\* is the smaller of the open and the transacted quantity
ClosedIsMin(walk) ==
    walk.closedQuantity # Undefined =>
        LET Q == walk.existing[1].quantity
            delta == event[1].data.aantal
        IN /\ walk.closedQuantity[1] = MinOf(Abs(Q), Abs(delta))
           /\ walk.closedQuantity[1] <= Abs(Q)
           /\ walk.closedQuantity[1] <= Abs(delta)

C24_ClosedQuantityIsMin ==
    TransactionProcessed => ClosedIsMin(portfolio) /\ ClosedIsMin(realized)

\* a transaction larger than the open position: the walk closed |Q| of it
C24_Witness ==
    /\ TransactionProcessed
    /\ portfolio.closedQuantity # Undefined
    /\ realized.closedQuantity # Undefined
    /\ Abs(event[1].data.aantal) > Abs(portfolio.existing[1].quantity)
    /\ portfolio.closedQuantity[1] = Abs(portfolio.existing[1].quantity)
    /\ portfolio.closedQuantity[1] > 0

(***************************************************************************)
(* C25: cash conservation in calculateRealizedPLOverTime: cumulative       *)
(* realized P&L plus the sum of the stored cost bases of all open          *)
(* positions equals the sum of the cash-flow values of all processed       *)
(* transactions, after opens, extends, partial closes, full closes and     *)
(* sign flips; so whenever every position is flat the snapshot value is    *)
(* total deposits plus the net cash flow of all transactions.  Both sides  *)
(* start at 0, so it is stated on the steps: a transaction adds its waarde *)
(* to realized value plus stored cost bases, a deposit adds its amount.    *)
(***************************************************************************)
\* realizedValue (deposits + realized P&L) plus the stored cost bases
CashHeld(walk) ==
    RAdd(walk.realizedValue,
         RSum([key \in DOMAIN walk.holdingsMap |-> walk.holdingsMap[key].totalCost],
              DOMAIN walk.holdingsMap))

C25_CashConservation ==
    [][processed' = processed + 1 =>
          /\ event'[1].type = "transaction" =>
                CashHeld(realized') = RAdd(CashHeld(realized), event'[1].data.waarde)
          /\ event'[1].type = "deposit" =>
                CashHeld(realized') = RAdd(CashHeld(realized), event'[1].data.mutatie)]_vars

(***************************************************************************)
(* C26: the final snapshot value of calculateRealizedPLOverTime is the     *)
(* same for any two transaction arrays that are permutations of each       *)
(* other, also when transactions of one instrument share a timestamp.      *)
(***************************************************************************)
\* the arrays with the rows of rows in any order
PermutationsOf(rows) ==
    LET n == Len(rows) IN
    { [i \in 1..n |-> rows[p[i]]] :
        p \in { f \in [1..n -> 1..n] : \A i, j \in 1..n : f[i] = f[j] => i = j } }

\* the value of the last snapshot a walk returns, if it returns one
FinalValue(walk) ==
    IF walk.snapshots = << >> THEN Undefined ELSE Some(LastSnapshot(walk).value)

C26_PermutationInvariant ==
    LoopDone =>
        \A permuted \in PermutationsOf(call.transactions) :
            FinalValue(RealizedWalk(RealizedStart,
                                    NormalizeEvents(permuted, call.accountActivities, << >>)))
                = FinalValue(realized)

(***************************************************************************)
(* C27: in a walk over a time window (calculateYTDPerformance) the         *)
(* realized P&L increment at every event inside the window equals the      *)
(* increment of the walk over the full history at that event: a            *)
(* transaction inside the window that reduces or closes a position opened  *)
(* before the window realizes against that position's cost basis and does  *)
(* not open a new position.                                                *)
(***************************************************************************)
C27_WindowIncrements ==
    TransactionProcessed =>
        \A i \in Invocations :
            InYTD(event[1].date, now[i]) =>
                /\ OrZero(ytd[i].realizedPL) = OrZero(portfolio.realizedPL)
                /\ ytd[i].existing = portfolio.existing

(***************************************************************************)
(* C28: optionsRealized + stocksRealized of calculateProfitLossByType      *)
(* equals the cumulative realized P&L calculateRealizedPLOverTime reaches  *)
(* on the same transactions without deposits, also for an instrument that  *)
(* was closed and reopened or only partially closed.                       *)
(***************************************************************************)
\* optionsRealized + stocksRealized for the transactions of the call
RealizedByType ==
    LET figures == CalculateProfitLossByType(call.transactions,
                                             AllHoldings(call.transactions, EmptyMap))
    IN RAdd(figures.optionsRealized, figures.stocksRealized)

\* the realized value of the walk over the transactions alone
RealizedByWalk ==
    RealizedWalk(RealizedStart, NormalizeEvents(call.transactions, << >>, << >>)).realizedValue

C28_RealizedByTypeMatchesWalk == LoopDone => RealizedByType = RealizedByWalk

(***************************************************************************)
(* C29: in the combined realized/unrealized series of PortfolioChart the   *)
(* unrealized value of every point is the total snapshot value of the same *)
(* event minus the realized snapshot value of the same event; so without   *)
(* price data the unrealized value is 0 at every point, also when several  *)
(* events share one timestamp.                                             *)
(***************************************************************************)
\* the index in allEvents, and so in the snapshots of calculatePortfolioOverTime,
\* of the event of the j-th snapshot of calculateRealizedPLOverTime
EventOfRealized(j) ==
    LET collected(i) == Cardinality({ k \in 1..i : call.allEvents[k].type # "price_update" })
    IN CHOOSE i \in 1..Len(call.allEvents) :
           call.allEvents[i].type # "price_update" /\ collected(i) = j

\* the snapshots Index hands the chart as data (Index.tsx line 423)
PortfolioSnapshots(prices) ==
    portfolio.snapshots \o FinalSnapshot(portfolio, prices, LatestClock)

C29_UnrealizedOfSameEvent ==
    LoopDone =>
        \A prices \in CurrentPriceMaps, totalValue \in TotalValues :
            LET combined == CombinedChartData(PortfolioSnapshots(prices), realized.snapshots,
                                              NetPortfolioValue(totalValue, Zero))
            IN /\ Len(combined) = Len(realized.snapshots)
               /\ \A j \in 1..Len(combined) :
                     /\ combined[j].unrealized =
                            RSub(portfolio.snapshots[EventOfRealized(j)].value,
                                 realized.snapshots[j].value)
                     /\ (call.priceHistory = << >> /\ prices = EmptyMap)
                            => combined[j].unrealized = Zero

(***************************************************************************)
(* C30: in every interleaving of handleFileSelect imports, two imports of  *)
(* one file in flight at once included, a parsed transaction whose         *)
(* fingerprint is already stored is never inserted again.                  *)
(***************************************************************************)
\* invocation h inserts its new transactions in this step
InsertStep(h) == imports.handlers[h].pc = "insert" /\ imports'.handlers[h].pc = "reload"

C30_NoDuplicateInsert ==
    [][\A h \in Handlers :
          InsertStep(h) =>
              \A i \in 1..Len(imports.handlers[h].newTransactions) :
                  Fingerprint(imports.handlers[h].newTransactions[i])
                      \notin ExistingFingerprints(imports.stored)]_vars
=============================================================================
